---- MODULE Spec2Model ----
(***************************************************************************)
(* Model of src/frontend/sw.js: the push-notification service worker of    *)
(* the drainage-blockage detection dashboard.                              *)
(*                                                                         *)
(* JavaScript strings are modelled as sequences of tokens: "" is << >>,    *)
(* concatenation is \o, includes()/startsWith are computed on the          *)
(* sequence.  The Korean literals of the source are written as ASCII       *)
(* tokens, the original text is quoted next to each of them.               *)
(***************************************************************************)
EXTENDS Integers, Sequences, FiniteSets, TLC

\* -------------------------------------------------------------------------
\* Bounds
\* -------------------------------------------------------------------------
MaxPush == 2      \* push events delivered in one behaviour
MaxClick == 2     \* notificationclick events delivered in one behaviour
MaxViews == 1     \* window clients the user opens
MaxDismiss == 1   \* notificationclose events delivered in one behaviour

\* -------------------------------------------------------------------------
\* JavaScript values
\* -------------------------------------------------------------------------
Undefined == [t |-> "undefined", s |-> << >>, n |-> 0]
Str(s)    == [t |-> "string",    s |-> s,     n |-> 0]
\* numbers are kept in hundredths: Num(9250) is 92.5
Num(n)    == [t |-> "number",    s |-> << >>, n |-> n]

\* ToBoolean of a value: "", 0 and undefined are falsy
Truthy(v) ==
    CASE v.t = "string" -> Len(v.s) > 0
      [] v.t = "number" -> v.n # 0
      [] OTHER          -> FALSE

\* String.prototype.includes for a one-token needle
Includes(s, c) == \E i \in 1..Len(s) : s[i] = c

StartsWith(s, p) == Len(p) <= Len(s) /\ SubSeq(s, 1, Len(p)) = p

EndsWith(s, p) == Len(p) <= Len(s) /\ SubSeq(s, Len(s) - Len(p) + 1, Len(s)) = p

\* Number.prototype.toFixed(1) of a number given in hundredths: the nearest
\* tenth, the larger one on a tie, sign written separately
Abs(n) == IF n < 0 THEN 0 - n ELSE n

toFixed1(n) ==
    LET tenths == (Abs(n) + 5) \div 10
    IN  (IF n < 0 /\ tenths # 0 THEN <<"-">> ELSE << >>)
        \o <<ToString(tenths \div 10), ".", ToString(tenths % 10)>>

\* Date.prototype.toISOString of the worker's clock
toISOString(now) == <<"1970-01-01T00:00:", ToString(now), "Z">>

\* -------------------------------------------------------------------------
\* Literals of the push listener
\* -------------------------------------------------------------------------
TitleDefault == <<"Sewer blockage detection system">>      \* '하수도 막힘 감지 시스템'
BodyDefault  == <<"A push notification has arrived.">>     \* 'Push 알림이 도착했습니다.'
TitleDanger  == <<"[alarm] Sewer danger alert!">>          \* '🚨 하수구 위험 경고!'
BodyDanger   == <<"Blockage risk is high. Check immediately.">>  \* '막힘 위험이 높습니다. 즉시 확인하세요.'
TitleCaution == <<"[orange] Sewer warning">>               \* '🟠 하수구 경고'
BodyCaution  == <<"Blockage risk is increasing.">>         \* '막힘 위험이 증가하고 있습니다.'
TitleWarning == <<"[warning] Sewer attention">>            \* '⚠️ 하수구 주의'
BodyWarning  == <<"Debris accumulation is increasing.">>   \* '쓰레기 축적량이 증가하고 있습니다.'
TitleInfo    == <<"[chart] Sewer status update">>          \* '📊 하수구 상태 업데이트'
BodyInfo     == <<"Status has been updated.">>             \* '상태가 업데이트되었습니다.'
RiskPrefix   == <<"\n", "risk: ">>                         \* '\n위험도: '
Percent      == <<"%">>
Favicon      == <<"/", "favicon.ico">>
RootUrl      == <<"/">>

VibrateDanger  == <<200, 100, 200, 100, 200>>
VibrateCaution == <<200, 100, 200>>
VibrateWarning == <<200>>
VibrateFallback == <<200>>

\* an optional field of notificationData: unset until a branch assigns it
Unset == [set |-> FALSE, b |-> FALSE, v |-> << >>]
SetBool(b) == [set |-> TRUE, b |-> b, v |-> << >>]
SetSeq(v)  == [set |-> TRUE, b |-> FALSE, v |-> v]

\* the data object attached to a notification; has is the set of own keys
DefaultData ==
    [has |-> {"url"}, url |-> RootUrl, level |-> Undefined,
     risk_score |-> Undefined, timestamp |-> << >>]

\* let notificationData = {...}
notificationData0 ==
    [title |-> TitleDefault, body |-> BodyDefault, icon |-> Favicon,
     badge |-> Favicon, data |-> DefaultData,
     requireInteraction |-> Unset, vibrate |-> Unset]

\* -------------------------------------------------------------------------
\* Push payloads (event.data)
\* -------------------------------------------------------------------------
\* kind: "none"   event.data is null
\*       "bad"    event.data.json() throws
\*       "null"   the text parses to JSON null
\*       "prim"   the text parses to a number, string or boolean
\*       "object" the text parses to an object with the three optional fields
NoData    == [kind |-> "none", level |-> Undefined, message |-> Undefined, risk_score |-> Undefined]
BadData   == [kind |-> "bad",  level |-> Undefined, message |-> Undefined, risk_score |-> Undefined]
JsonNull  == [kind |-> "null", level |-> Undefined, message |-> Undefined, risk_score |-> Undefined]
JsonPrim  == [kind |-> "prim", level |-> Undefined, message |-> Undefined, risk_score |-> Undefined]
JsonObject(l, m, r) == [kind |-> "object", level |-> l, message |-> m, risk_score |-> r]

Levels   == {Undefined, Str(<<"danger">>), Str(<<"caution">>), Str(<<"warning">>), Str(<<"info">>)}
Messages == {Undefined, Str(<< >>), Str(<<"Grate 3 is overflowing">>)}
Scores   == {Undefined, Num(0), Num(25), Num(9250), Str(<<"high">>)}

Payloads ==
    {NoData, BadData, JsonNull, JsonPrim}
    \cup {JsonObject(l, m, r) : l \in Levels, m \in Messages, r \in Scores}

\* the payload used where the router, not the composer, is under study
CorePayloads == {JsonObject(Str(<<"danger">>), Undefined, Num(9250))}

\* the payloads used where push events interleave with interactions
MixPayloads == {NoData, JsonObject(Str(<<"danger">>), Undefined, Num(9250))}

\* -------------------------------------------------------------------------
\* The push listener, sw.js 17-94
\* -------------------------------------------------------------------------
\* -------------------------------------------------------------------------
\* Faulty variants of the listeners, used to show that each property depends
\* on the code it is about
\* -------------------------------------------------------------------------
\* the level chain with the patterns of caution and warning exchanged
LevelBranch_SwappedPatterns(nd, data) ==
    LET body(fallback) == IF Truthy(data.message) THEN data.message.s ELSE fallback
    IN  IF data.level = Str(<<"danger">>)
        THEN [nd EXCEPT !.title = TitleDanger, !.body = body(BodyDanger),
                        !.requireInteraction = SetBool(TRUE),
                        !.vibrate = SetSeq(VibrateDanger)]
        ELSE IF data.level = Str(<<"caution">>)
        THEN [nd EXCEPT !.title = TitleCaution, !.body = body(BodyCaution),
                        !.vibrate = SetSeq(VibrateWarning)]
        ELSE IF data.level = Str(<<"warning">>)
        THEN [nd EXCEPT !.title = TitleWarning, !.body = body(BodyWarning),
                        !.vibrate = SetSeq(VibrateCaution)]
        ELSE [nd EXCEPT !.title = TitleInfo, !.body = body(BodyInfo)]

\* the attached data without the risk_score key
AttachData_NoScore(nd, data, now) ==
    [nd EXCEPT !.data = [has |-> {"url", "level", "timestamp"},
                         url |-> RootUrl, level |-> data.level,
                         risk_score |-> Undefined,
                         timestamp |-> toISOString(now)]]

\* a catch block that rethrows
CatchError_Rethrow(r) == r

\* the actions in the opposite order
Actions_Reversed ==
    << [action |-> "close", title |-> <<"Close">>,          icon |-> << >>],
       [action |-> "view",  title |-> <<"Open dashboard">>, icon |-> Favicon] >>

\* data.message || fallback
MessageOr(data, fallback) ==
    IF Truthy(data.message) THEN data.message.s ELSE fallback

\* the if / else if chain on data.level
LevelBranch(nd, data) ==
    IF data.level = Str(<<"danger">>)
    THEN [nd EXCEPT !.title = TitleDanger,
                    !.body = MessageOr(data, BodyDanger),
                    !.requireInteraction = SetBool(TRUE),
                    !.vibrate = SetSeq(VibrateDanger)]
    ELSE IF data.level = Str(<<"caution">>)
    THEN [nd EXCEPT !.title = TitleCaution,
                    !.body = MessageOr(data, BodyCaution),
                    !.vibrate = SetSeq(VibrateCaution)]
    ELSE IF data.level = Str(<<"warning">>)
    THEN [nd EXCEPT !.title = TitleWarning,
                    !.body = MessageOr(data, BodyWarning),
                    !.vibrate = SetSeq(VibrateWarning)]
    ELSE [nd EXCEPT !.title = TitleInfo,
                    !.body = MessageOr(data, BodyInfo)]

\* if (data.risk_score): the condition of the risk line
RiskScoreShown(data) == Truthy(data.risk_score)

\* data.risk_score.toFixed is not a function unless risk_score is a number
RiskLineThrows(data) == RiskScoreShown(data) /\ data.risk_score.t # "number"

\* notificationData.body += `\n위험도: ${data.risk_score.toFixed(1)}%`
RiskLine(nd, data) ==
    IF RiskScoreShown(data)
    THEN [nd EXCEPT !.body = @ \o RiskPrefix \o toFixed1(data.risk_score.n) \o Percent]
    ELSE nd

\* notificationData.data = { url, level, risk_score, timestamp }
AttachData(nd, data, now) ==
    [nd EXCEPT !.data = [has |-> {"url", "level", "risk_score", "timestamp"},
                         url |-> RootUrl, level |-> data.level,
                         risk_score |-> data.risk_score,
                         timestamp |-> toISOString(now)]]

\* a try block whose assignments are undone when a statement throws
TryBlock_Rollback(nd, data, now) ==
    IF data.kind \in {"bad", "null"} \/ RiskLineThrows(data)
    THEN [nd |-> nd, thrown |-> TRUE]
    ELSE [nd |-> AttachData(RiskLine(LevelBranch(nd, data), data), data, now),
          thrown |-> FALSE]

\* the body of the try block: the statements run in order and the first one
\* that throws leaves the assignments made so far in place
TryBlock(nd, data, now) ==
    IF data.kind = "bad"
    THEN [nd |-> nd, thrown |-> TRUE]                \* event.data.json() throws
    ELSE IF data.kind = "null"
    THEN [nd |-> nd, thrown |-> TRUE]                \* null.level throws
    ELSE LET nd1 == LevelBranch(nd, data)
         IN  IF RiskLineThrows(data)
             THEN [nd |-> nd1, thrown |-> TRUE]
             ELSE [nd |-> AttachData(RiskLine(nd1, data), data, now),
                   thrown |-> FALSE]

\* catch (error) { console.error(...) }: the error is swallowed
CatchError(r) == [nd |-> r.nd, thrown |-> FALSE]

\* the actions array of the options
Actions ==
    << [action |-> "view",  title |-> <<"Open dashboard">>, icon |-> Favicon],
       [action |-> "close", title |-> <<"Close">>,          icon |-> << >>] >>

\* options whose requireInteraction defaults to true
Options_StickyDefault(nd) ==
    [body |-> nd.body, icon |-> nd.icon, badge |-> nd.badge, data |-> nd.data,
     requireInteraction |-> IF nd.requireInteraction.set THEN nd.requireInteraction.b ELSE TRUE,
     vibrate |-> IF nd.vibrate.set THEN nd.vibrate.v ELSE VibrateFallback,
     actions |-> Actions]

\* const options = {...}
Options(nd) ==
    [body |-> nd.body, icon |-> nd.icon, badge |-> nd.badge, data |-> nd.data,
     requireInteraction |-> IF nd.requireInteraction.set /\ nd.requireInteraction.b
                            THEN TRUE ELSE FALSE,
     vibrate |-> IF nd.vibrate.set THEN nd.vibrate.v ELSE VibrateFallback,
     actions |-> Actions]

\* a listener that returns early when the event carries no data
PushListener_SkipNoData(data, now) ==
    IF data.kind = "none"
    THEN [threw |-> FALSE, calls |-> << >>]
    ELSE LET r == CatchError(TryBlock(notificationData0, data, now))
         IN  [threw |-> r.thrown,
              calls |-> IF r.thrown THEN << >>
                        ELSE << [title |-> r.nd.title, options |-> Options(r.nd),
                                 waitUntil |-> TRUE] >>]

\* a listener that calls showNotification without event.waitUntil
PushListener_NoWaitUntil(data, now) ==
    LET r == IF data.kind = "none"
             THEN [nd |-> notificationData0, thrown |-> FALSE]
             ELSE CatchError(TryBlock(notificationData0, data, now))
    IN  [threw |-> r.thrown,
         calls |-> IF r.thrown THEN << >>
                   ELSE << [title |-> r.nd.title, options |-> Options(r.nd),
                            waitUntil |-> FALSE] >>]

\* the whole listener: the showNotification calls it issues, each passed to
\* event.waitUntil, and whether an exception leaves it
PushListener(data, now) ==
    LET r == IF data.kind = "none"
             THEN [nd |-> notificationData0, thrown |-> FALSE]
             ELSE CatchError(TryBlock(notificationData0, data, now))
    IN  IF r.thrown
        THEN [threw |-> TRUE, calls |-> << >>]
        ELSE [threw |-> FALSE,
              calls |-> << [title |-> r.nd.title, options |-> Options(r.nd),
                            waitUntil |-> TRUE] >>]

\* -------------------------------------------------------------------------
\* The notificationclick listener, sw.js 97-122
\* -------------------------------------------------------------------------
\* locations of window clients
DashboardUrl == <<"https:", "/", "/", "sewer.example", "/">>
SettingsUrl  == <<"https:", "/", "/", "sewer.example", "/", "settings">>
BlankUrl     == <<"about:blank">>

\* the window clients a user can have open: the dashboard, another page of
\* the origin, a blank window, and a client object without a focus method
ViewKinds ==
    { [url |-> DashboardUrl, focus |-> TRUE,  controlled |-> FALSE],
      [url |-> SettingsUrl,  focus |-> TRUE,  controlled |-> FALSE],
      [url |-> BlankUrl,     focus |-> TRUE,  controlled |-> FALSE],
      [url |-> DashboardUrl, focus |-> FALSE, controlled |-> FALSE] }

\* event.action of a click: a labelled action or the notification body
ClickActions == {"view", "close", ""}

\* an action test that lets every action navigate
Navigates_Always(action) == TRUE

\* if (event.action === 'view' || event.action === '')
Navigates(action) == action = "view" \/ action = ""

\* clients.matchAll({type: 'window', includeUncontrolled: true}): the indices
\* of the enumerated clients, in enumeration order
MatchAll(vs, includeUncontrolled) ==
    SelectSeq([i \in 1..Len(vs) |-> i],
              LAMBDA i : includeUncontrolled \/ vs[i].controlled)

\* client.url.includes('/') && 'focus' in client
Eligible(client) == Includes(client.url, "/") /\ client.focus

\* a loop that returns on the first enumerated client without testing it
FirstEligible_FirstListed(vs, list) == IF list = << >> THEN 0 ELSE Head(list)

\* the for loop of the callback: the first eligible client, 0 when none
RECURSIVE FirstEligible(_, _)
FirstEligible(vs, list) ==
    IF list = << >> THEN 0
    ELSE IF Eligible(vs[Head(list)]) THEN Head(list)
    ELSE FirstEligible(vs, Tail(list))

\* the callback passed to then(): the call it returns, if any
Callback(vs, list, hasOpenWindow) ==
    LET c == FirstEligible(vs, list)
    IN  IF c # 0 THEN [op |-> "focus", view |-> c]
        ELSE IF hasOpenWindow THEN [op |-> "openWindow", view |-> 0]
        ELSE [op |-> "none", view |-> 0]

\* a listener that closes the notification after starting the enumeration
ClickListener_CloseLast(action) ==
    (IF Navigates(action) THEN <<"matchAll">> ELSE << >>) \o <<"close">>

\* the synchronous part of the listener: the calls it makes, in order
ClickListener(action) ==
    <<"close">> \o (IF Navigates(action) THEN <<"matchAll">> ELSE << >>)

\* -------------------------------------------------------------------------
\* State
\* -------------------------------------------------------------------------
VARIABLES
    swState,        \* lifecycle of the worker: parsed, installing, installed,
                    \* activating, activated
    skipWaiting,    \* number of self.skipWaiting() calls
    skipPromise,    \* the promise returned by skipWaiting(): none, pending, fulfilled
    installWait,    \* number of promises the install listener passed to waitUntil
    claim,          \* the clients.claim() promise: status and whether waitUntil holds it
    hasOpenWindow,  \* whether the platform defines clients.openWindow
    clock,          \* the worker's clock
    pushes,         \* push events delivered: data, time, whether the listener threw
    shown,          \* showNotification calls: event, title, options, promise status
    closed,         \* set of indices of shown whose notification has been closed
    views,          \* the open window clients, in enumeration order
    focused,        \* index of the view last brought to the foreground, 0 if none
    clicks,         \* notificationclick events delivered: notification, action, the
                    \* platform calls made for the event in order, and the state of
                    \* the promise passed to waitUntil
    dismissals      \* notificationclose events delivered

vars == <<swState, skipWaiting, skipPromise, installWait, claim, hasOpenWindow, clock, pushes,
          shown, closed, views, focused, clicks, dismissals>>

lifecycleVars == <<swState, skipWaiting, skipPromise, installWait, claim>>
pushVars      == <<clock, pushes, shown>>
routerVars    == <<closed, views, focused, clicks, dismissals>>

Init ==
    /\ swState = "parsed"
    /\ skipWaiting = 0
    /\ skipPromise = "none"
    /\ installWait = 0
    /\ claim = [status |-> "none", waitUntil |-> FALSE]
    /\ hasOpenWindow \in BOOLEAN
    /\ clock = 0
    /\ pushes = << >>
    /\ shown = << >>
    /\ closed = {}
    /\ views = << >>
    /\ focused = 0
    /\ clicks = << >>
    /\ dismissals = << >>

\* -------------------------------------------------------------------------
\* Lifecycle, sw.js 5-14
\* -------------------------------------------------------------------------
\* an install listener that passes the skipWaiting() promise to waitUntil
InstallListener_Waits == [skipWaiting |-> 1, waitUntil |-> 1]

\* the install listener: skipWaiting(), no waitUntil
InstallListener == [skipWaiting |-> 1, waitUntil |-> 0]

\* the install event is delivered and its listener runs to completion
Install ==
    /\ swState = "parsed"
    /\ skipWaiting' = skipWaiting + InstallListener.skipWaiting
    /\ skipPromise' = IF InstallListener.skipWaiting > 0 THEN "pending" ELSE skipPromise
    /\ installWait' = installWait + InstallListener.waitUntil
    /\ swState' = "installing"
    /\ UNCHANGED <<claim, hasOpenWindow, pushVars, routerVars>>

\* the skipWaiting() promise resolves: the flag is set and, as no worker of
\* the registration is waiting yet, nothing is activated
SkipWaitingResolve ==
    /\ skipPromise = "pending"
    /\ swState \in {"installing", "installed"}
    /\ skipPromise' = "fulfilled"
    /\ UNCHANGED <<swState, skipWaiting, installWait, claim, hasOpenWindow, pushVars,
                   routerVars>>

\* the platform ends the install event once no promise extends it
InstallDone ==
    /\ swState = "installing"
    /\ ~(installWait > 0 /\ skipPromise = "pending")
    /\ swState' = "installed"
    /\ UNCHANGED <<skipWaiting, skipPromise, installWait, claim, hasOpenWindow, pushVars,
                   routerVars>>

\* an activate listener that calls claim() without waitUntil
ActivateListener_NoWaitUntil == [status |-> "pending", waitUntil |-> FALSE]

\* the activate listener: event.waitUntil(self.clients.claim())
ActivateListener == [status |-> "pending", waitUntil |-> TRUE]

\* the skip-waiting flag lets the worker activate although clients of the
\* origin are open; the skipWaiting() promise has resolved by then
Activate ==
    /\ swState = "installed"
    /\ skipWaiting > 0
    /\ swState' = "activating"
    /\ skipPromise' = "fulfilled"
    /\ claim' = ActivateListener
    /\ UNCHANGED <<skipWaiting, installWait, hasOpenWindow, pushVars, routerVars>>

\* the claim promise settles; on success every open client is controlled
ClaimFulfil ==
    /\ claim.status = "pending"
    /\ claim' = [claim EXCEPT !.status = "fulfilled"]
    /\ views' = [i \in 1..Len(views) |-> [views[i] EXCEPT !.controlled = TRUE]]
    /\ UNCHANGED <<swState, skipWaiting, skipPromise, installWait, hasOpenWindow, pushVars,
                   closed, focused, clicks, dismissals>>

ClaimReject ==
    /\ claim.status = "pending"
    /\ claim' = [claim EXCEPT !.status = "rejected"]
    /\ UNCHANGED <<swState, skipWaiting, skipPromise, installWait, hasOpenWindow, pushVars,
                   routerVars>>

\* the platform ends the activate event once no promise extends it
Activated ==
    /\ swState = "activating"
    /\ ~(claim.waitUntil /\ claim.status = "pending")
    /\ swState' = "activated"
    /\ UNCHANGED <<skipWaiting, skipPromise, installWait, claim, hasOpenWindow, pushVars,
                   routerVars>>

\* -------------------------------------------------------------------------
\* Push
\* -------------------------------------------------------------------------
\* a listener whose notificationData outlives the event: requireInteraction,
\* once set, stays set for the events that follow
PushEvent_SharedData(P) ==
    /\ swState = "activated"
    /\ Len(pushes) < MaxPush
    /\ \E data \in P :
         LET now == clock + 1
             r   == PushListener(data, now)
             e   == Len(pushes) + 1
             sticky == \E n \in 1..Len(shown) : shown[n].options.requireInteraction
         IN  /\ clock' = now
             /\ pushes' = Append(pushes, [data |-> data, now |-> now, threw |-> r.threw])
             /\ shown' = shown \o
                  [i \in 1..Len(r.calls) |->
                     [event |-> e, title |-> r.calls[i].title,
                      options |-> [r.calls[i].options EXCEPT
                                     !.requireInteraction = @ \/ sticky],
                      status |-> "pending", waitUntil |-> r.calls[i].waitUntil]]
    /\ UNCHANGED <<lifecycleVars, hasOpenWindow, routerVars>>

\* a push event is delivered and its listener runs to completion
PushEvent(P) ==
    /\ swState = "activated"
    /\ Len(pushes) < MaxPush
    /\ \E data \in P :
         LET now == clock + 1
             r   == PushListener(data, now)
             e   == Len(pushes) + 1
         IN  /\ clock' = now
             /\ pushes' = Append(pushes, [data |-> data, now |-> now, threw |-> r.threw])
             /\ shown' = shown \o
                  [i \in 1..Len(r.calls) |->
                     [event |-> e, title |-> r.calls[i].title,
                      options |-> r.calls[i].options,
                      status |-> "pending", waitUntil |-> r.calls[i].waitUntil]]
    /\ UNCHANGED <<lifecycleVars, hasOpenWindow, routerVars>>

Push == PushEvent(Payloads)

PushMix == PushEvent(MixPayloads)

PushCore == PushEvent(CorePayloads)

\* the showNotification promise settles
RenderFulfil ==
    /\ \E n \in 1..Len(shown) :
         /\ shown[n].status = "pending"
         /\ shown' = [shown EXCEPT ![n].status = "fulfilled"]
    /\ UNCHANGED <<lifecycleVars, hasOpenWindow, clock, pushes, routerVars>>

\* a rejection handler that shows the notification a second time
RenderReject_Retry ==
    /\ \E n \in 1..Len(shown) :
         /\ shown[n].status = "pending"
         /\ shown[n].event = n
         /\ shown' = Append([shown EXCEPT ![n].status = "rejected"],
                            [shown[n] EXCEPT !.status = "pending"])
    /\ UNCHANGED <<lifecycleVars, hasOpenWindow, clock, pushes, routerVars>>

RenderReject ==
    /\ \E n \in 1..Len(shown) :
         /\ shown[n].status = "pending"
         /\ shown' = [shown EXCEPT ![n].status = "rejected"]
    /\ UNCHANGED <<lifecycleVars, hasOpenWindow, clock, pushes, routerVars>>

\* -------------------------------------------------------------------------
\* Views and interaction
\* -------------------------------------------------------------------------
\* the user opens a window of the origin
UserOpensView ==
    /\ Len(views) < MaxViews
    /\ \E v \in ViewKinds : views' = Append(views, v)
    /\ UNCHANGED <<lifecycleVars, hasOpenWindow, pushVars, closed, focused, clicks,
                   dismissals>>

\* the notifications on screen
Displayed == {n \in 1..Len(shown) : shown[n].status = "fulfilled" /\ n \notin closed}

\* a notificationclick event is delivered and its listener runs up to the
\* matchAll call
NotificationClick ==
    /\ swState = "activated"
    /\ Len(clicks) < MaxClick
    /\ \E n \in Displayed, action \in ClickActions :
         LET ops == ClickListener(action)
         IN  /\ clicks' = Append(clicks,
                    [notification |-> n, action |-> action,
                     calls |-> [i \in 1..Len(ops) |-> [op |-> ops[i], view |-> 0]],
                     phase |-> IF Includes(ops, "matchAll") THEN "matchAll" ELSE "none",
                     waitUntil |-> Includes(ops, "matchAll")])
             /\ closed' = IF Includes(ops, "close") THEN closed \cup {n} ELSE closed
    /\ UNCHANGED <<lifecycleVars, hasOpenWindow, pushVars, views, focused, dismissals>>

\* matchAll resolves and the then() callback runs
MatchAllResolve ==
    /\ \E c \in 1..Len(clicks) :
         /\ clicks[c].phase = "matchAll"
         /\ LET r == Callback(views, MatchAll(views, TRUE), hasOpenWindow)
            IN  clicks' = [clicks EXCEPT
                    ![c].phase = IF r.op = "none" THEN "fulfilled" ELSE r.op,
                    ![c].calls = IF r.op = "none" THEN @ ELSE Append(@, r)]
    /\ UNCHANGED <<lifecycleVars, hasOpenWindow, pushVars, closed, views, focused,
                   dismissals>>

\* the view of the pending focus call of click c
FocusTarget(c) == clicks[c].calls[Len(clicks[c].calls)].view

\* client.focus() settles
FocusFulfil ==
    /\ \E c \in 1..Len(clicks) :
         /\ clicks[c].phase = "focus"
         /\ clicks' = [clicks EXCEPT ![c].phase = "fulfilled"]
         /\ focused' = FocusTarget(c)
    /\ UNCHANGED <<lifecycleVars, hasOpenWindow, pushVars, closed, views, dismissals>>

\* a rejection handler that falls back to opening a window
FocusReject_Fallback ==
    /\ \E c \in 1..Len(clicks) :
         /\ clicks[c].phase = "focus"
         /\ clicks' = [clicks EXCEPT ![c].phase = "openWindow",
                                     ![c].calls = Append(@, [op |-> "openWindow", view |-> 0])]
    /\ UNCHANGED <<lifecycleVars, hasOpenWindow, pushVars, closed, views, focused,
                   dismissals>>

FocusReject ==
    /\ \E c \in 1..Len(clicks) :
         /\ clicks[c].phase = "focus"
         /\ clicks' = [clicks EXCEPT ![c].phase = "rejected"]
    /\ UNCHANGED <<lifecycleVars, hasOpenWindow, pushVars, closed, views, focused,
                   dismissals>>

\* clients.openWindow('/') settles; on success a controlled dashboard view
\* exists and is in the foreground
OpenWindowFulfil ==
    /\ \E c \in 1..Len(clicks) :
         /\ clicks[c].phase = "openWindow"
         /\ clicks' = [clicks EXCEPT ![c].phase = "fulfilled"]
         /\ views' = Append(views, [url |-> DashboardUrl, focus |-> TRUE, controlled |-> TRUE])
         /\ focused' = Len(views) + 1
    /\ UNCHANGED <<lifecycleVars, hasOpenWindow, pushVars, closed, dismissals>>

OpenWindowReject ==
    /\ \E c \in 1..Len(clicks) :
         /\ clicks[c].phase = "openWindow"
         /\ clicks' = [clicks EXCEPT ![c].phase = "rejected"]
    /\ UNCHANGED <<lifecycleVars, hasOpenWindow, pushVars, closed, views, focused,
                   dismissals>>

\* a notificationclose listener that shows the dismissed notification again
NotificationClose_Retry ==
    /\ swState = "activated"
    /\ Len(dismissals) < MaxDismiss
    /\ \E n \in Displayed :
         /\ dismissals' = Append(dismissals, n)
         /\ closed' = closed \cup {n}
         /\ shown' = Append(shown, [shown[n] EXCEPT !.status = "pending"])
    /\ UNCHANGED <<lifecycleVars, hasOpenWindow, clock, pushes, views, focused, clicks>>

\* the user swipes a notification away: the notificationclose listener logs
NotificationClose ==
    /\ swState = "activated"
    /\ Len(dismissals) < MaxDismiss
    /\ \E n \in Displayed :
         /\ dismissals' = Append(dismissals, n)
         /\ closed' = closed \cup {n}
    /\ UNCHANGED <<lifecycleVars, hasOpenWindow, pushVars, views, focused, clicks>>

\* -------------------------------------------------------------------------
\* Specifications
\* -------------------------------------------------------------------------
Lifecycle ==
    \/ Install \/ SkipWaitingResolve \/ InstallDone
    \/ Activate \/ ClaimFulfil \/ ClaimReject \/ Activated

Next ==
    \/ Lifecycle
    \/ PushCore \/ RenderFulfil \/ RenderReject
    \/ UserOpensView \/ NotificationClick \/ MatchAllResolve
    \/ FocusFulfil \/ FocusReject \/ OpenWindowFulfil \/ OpenWindowReject
    \/ NotificationClose

Spec == Init /\ [][Next]_vars

\* the composer under every payload: lifecycle and push events only
NextPush == Lifecycle \/ Push

SpecPush == Init /\ [][NextPush]_vars

\* push events of different payloads interleaved with renders that settle,
\* clicks, navigations and dismissals
NextMix ==
    \/ Lifecycle
    \/ PushMix \/ RenderFulfil \/ RenderReject
    \/ NotificationClick \/ MatchAllResolve
    \/ FocusFulfil \/ FocusReject \/ OpenWindowFulfil \/ OpenWindowReject
    \/ NotificationClose

SpecMix == Init /\ [][NextMix]_vars

\* -------------------------------------------------------------------------
\* Properties of the push listener (checked under SpecPush)
\* -------------------------------------------------------------------------
\* the showNotification calls issued for push event e
RenderedFor(e) == {n \in 1..Len(shown) : shown[n].event = e}

\* P holds of the call rendered for every push event whose data satisfies Q
EveryRender(Q(_), P(_, _)) ==
    \A e \in 1..Len(pushes) :
        Q(pushes[e].data) =>
            /\ RenderedFor(e) # {}
            /\ \A n \in RenderedFor(e) : P(shown[n], pushes[e])

\* the risk line of a numeric score
RiskSuffix(score) == RiskPrefix \o toFixed1(score.n) \o Percent

\* section 4.2 of the specification: the severity table
SeverityOf(level) ==
    IF level = Str(<<"danger">>) THEN "DANGER"
    ELSE IF level = Str(<<"caution">>) THEN "CAUTION"
    ELSE IF level = Str(<<"warning">>) THEN "WARNING"
    ELSE "INFO"

SeverityTable(sev) ==
    CASE sev = "DANGER"  -> [title |-> TitleDanger, body |-> BodyDanger,
                             requireInteraction |-> TRUE, vibrate |-> <<200, 100, 200, 100, 200>>]
      [] sev = "CAUTION" -> [title |-> TitleCaution, body |-> BodyCaution,
                             requireInteraction |-> FALSE, vibrate |-> <<200, 100, 200>>]
      [] sev = "WARNING" -> [title |-> TitleWarning, body |-> BodyWarning,
                             requireInteraction |-> FALSE, vibrate |-> <<200>>]
      [] OTHER           -> [title |-> TitleInfo, body |-> BodyInfo,
                             requireInteraction |-> FALSE, vibrate |-> <<200>>]

IsAbsentOrBad(data) == data.kind \in {"none", "bad"}
IsObject(data)      == data.kind = "object"
IsParsed(data)      == data.kind \in {"null", "prim", "object"}
AnyData(data)       == TRUE

\* C1: every push event, whatever its payload, issues exactly one
\* showNotification call, so after N push events exactly N calls were issued.
C1_OneRenderPerPush ==
    /\ Len(shown) = Len(pushes)
    /\ \A e \in 1..Len(pushes) : Cardinality(RenderedFor(e)) = 1

\* two malformed payloads in a row: both rendered, nothing coalesced
C1_Witness ==
    /\ Len(pushes) >= 2
    /\ pushes[1].data = BadData /\ pushes[2].data = BadData
    /\ Cardinality(RenderedFor(1)) = 1 /\ Cardinality(RenderedFor(2)) = 1

\* C2 as stated: for absent or unparsable data no exception leaves the
\* handler and the notification has the title, body, requireInteraction and
\* pattern of the INFO row.
C2_Original ==
    EveryRender(IsAbsentOrBad,
        LAMBDA call, ev :
            /\ ~ev.threw
            /\ call.title = SeverityTable("INFO").title
            /\ call.options.body = SeverityTable("INFO").body
            /\ call.options.requireInteraction = SeverityTable("INFO").requireInteraction
            /\ call.options.vibrate = SeverityTable("INFO").vibrate)

\* C2 amended: for absent or unparsable data no exception leaves the handler
\* and the notification is the listener's generic default: the system-name
\* title, the "push notification has arrived" body, requireInteraction false
\* and the one-pulse pattern (only the last two coincide with the INFO row).
C2_DefaultOnAbsentOrBad ==
    EveryRender(IsAbsentOrBad,
        LAMBDA call, ev :
            /\ ~ev.threw
            /\ call.title = TitleDefault
            /\ call.options.body = BodyDefault
            /\ call.options.requireInteraction = SeverityTable("INFO").requireInteraction
            /\ call.options.vibrate = SeverityTable("INFO").vibrate)

C2_Witness ==
    /\ Len(pushes) >= 2 /\ Len(shown) >= 2
    /\ pushes[1].data = NoData /\ pushes[2].data = BadData
    /\ shown[1].title = TitleDefault /\ shown[2].title = TitleDefault
    /\ ~pushes[2].threw

HasNoMessage(data) == IsObject(data) /\ data.message = Undefined

IsUnrecognised(data) ==
    IsParsed(data) /\ data.level \notin {Str(<<"danger">>), Str(<<"caution">>), Str(<<"warning">>)}

\* C4 as stated: a parsed payload whose level is absent or unrecognised
\* renders the INFO default descriptor: INFO title, INFO body (no percentage
\* suffix when the score is absent), requireInteraction false, one pulse.
C4_Original ==
    EveryRender(IsUnrecognised,
        LAMBDA call, ev :
            /\ call.title = TitleInfo
            /\ StartsWith(call.options.body, BodyInfo)
            /\ ev.data.risk_score = Undefined => call.options.body = BodyInfo
            /\ call.options.requireInteraction = FALSE
            /\ call.options.vibrate = <<200>>)

IsUnrecognisedNonNull(data) == IsUnrecognised(data) /\ data.kind # "null"

\* C4 amended: a parsed payload other than JSON null whose level is absent or
\* unrecognised renders the INFO title, requireInteraction false and the
\* one-pulse pattern; when it has no message its body is the INFO body, with
\* no percentage suffix when the score is absent.
C4_InfoFallback ==
    EveryRender(IsUnrecognisedNonNull,
        LAMBDA call, ev :
            /\ call.title = TitleInfo
            /\ call.options.requireInteraction = FALSE
            /\ call.options.vibrate = <<200>>
            /\ ev.data.message = Undefined =>
                 /\ StartsWith(call.options.body, BodyInfo)
                 /\ ev.data.risk_score = Undefined => call.options.body = BodyInfo)

\* the empty object {} and an object with an unknown level
C4_Witness ==
    /\ Len(pushes) >= 2 /\ Len(shown) >= 2
    /\ pushes[1].data = JsonObject(Undefined, Undefined, Undefined)
    /\ pushes[2].data = JsonObject(Str(<<"info">>), Undefined, Num(9250))
    /\ shown[1].title = TitleInfo /\ shown[1].options.body = BodyInfo
    /\ shown[2].title = TitleInfo /\ ~Includes(shown[1].options.body, "%")
    /\ shown[2].options.body = BodyInfo \o RiskSuffix(Num(9250))

HasNumericOrNoScore(data) ==
    IsObject(data) /\ data.risk_score.t \in {"number", "undefined"}

\* C5: the body carries the risk-score line (one decimal place and a percent
\* sign) exactly when the parsed payload contains a riskScore, also when the
\* score is 0 ("0.0%"); without a score the body has no percentage suffix.
C5_RiskLineIffPresent ==
    EveryRender(HasNumericOrNoScore,
        LAMBDA call, ev :
            /\ ev.data.risk_score.t = "number" =>
                 EndsWith(call.options.body, RiskSuffix(ev.data.risk_score))
            /\ ev.data.risk_score = Undefined => ~Includes(call.options.body, "%"))

HasStringMessage(data) == IsObject(data) /\ data.message.t = "string"

\* C6: whenever the parsed payload contains a message, the empty string
\* included, the body is that message (followed at most by the risk-score
\* line) and not the default body of the level.
C6_MessageOverridesBody ==
    EveryRender(HasStringMessage,
        LAMBDA call, ev :
            \/ call.options.body = ev.data.message.s
            \/ /\ ev.data.risk_score.t = "number"
               /\ call.options.body = ev.data.message.s \o RiskSuffix(ev.data.risk_score))

FullKeys == {"url", "level", "risk_score", "timestamp"}

CarriesAllFour(call, ev) ==
    /\ call.options.data.has = FullKeys
    /\ call.options.data.url = <<"/">>
    /\ call.options.data.level = ev.data.level
    /\ call.options.data.risk_score = ev.data.risk_score
    /\ call.options.data.timestamp = toISOString(ev.now)

\* C7 as stated: the payload of every rendered notification, absent and
\* malformed data included, carries url "/", the inbound level and score
\* unchanged and the time of composition.
C7_Original == EveryRender(AnyData, CarriesAllFour)

\* the parse block runs to its end: the data parses to something other than
\* null and the score, if truthy, is a number
BlockCompletes(data) ==
    /\ data.kind \in {"prim", "object"}
    /\ ~(data.risk_score.t = "string" /\ data.risk_score.s # << >>)

BlockAborts(data) == ~BlockCompletes(data)

\* C7 amended: when the data parses and the parse block runs to its end, the
\* payload carries url "/", the inbound level and score unchanged and the
\* time of composition; for every other push event (absent data, data that
\* fails to parse, an exception inside the block) it carries url "/" only.
C7_PayloadFields ==
    /\ EveryRender(BlockCompletes, CarriesAllFour)
    /\ EveryRender(BlockAborts,
           LAMBDA call, ev :
               /\ call.options.data.has = {"url"}
               /\ call.options.data.url = <<"/">>)

C7_Witness ==
    /\ Len(pushes) >= 2 /\ Len(shown) >= 2
    /\ pushes[1].data = NoData
    /\ pushes[2].data = JsonObject(Str(<<"info">>), Undefined, Num(0))
    /\ shown[1].options.data.has = {"url"}
    /\ shown[2].options.data.has = FullKeys
    /\ shown[2].options.data.risk_score = Num(0)
    /\ shown[2].options.data.timestamp = toISOString(2)

\* C8: every rendered notification, on every path through the listener, has
\* exactly two actions: first "view", then "close".
C8_TwoActionsInOrder ==
    /\ EveryRender(AnyData,
           LAMBDA call, ev :
               /\ Len(call.options.actions) = 2
               /\ call.options.actions[1].action = "view"
               /\ call.options.actions[2].action = "close")

\* one notification from the parse-failure path and one from a parsed event
C8_Witness ==
    /\ Len(pushes) >= 2 /\ Len(shown) >= 2
    /\ pushes[1].data = BadData
    /\ pushes[2].data = JsonObject(Str(<<"warning">>), Str(<<"Grate 3 is overflowing">>), Num(25))
    /\ Len(shown[1].options.actions) = 2 /\ Len(shown[2].options.actions) = 2

\* -------------------------------------------------------------------------
\* Properties of the interaction router (checked under Spec)
\* -------------------------------------------------------------------------
\* a view whose location is the target of the navigation
AtTarget(view) == view.url = DashboardUrl

\* the enumeration of click c resolves in this step
Resolves(c) == clicks[c].phase = "matchAll" /\ clicks'[c].phase # "matchAll"

\* C9: when the enumeration of a "view" or action-less click resolves, on a
\* platform that offers focus() and openWindow: if some open view is at the
\* target URL the router focuses a view at the target URL and opens none, and
\* if no open view is at the target URL, whatever else is open, it opens one
\* new view at "/".
C9_FocusOnlyTargetView ==
    [][\A c \in 1..Len(clicks) :
         (Resolves(c) /\ hasOpenWindow /\ \A i \in 1..Len(views) : views[i].focus) =>
            IF \E i \in 1..Len(views) : AtTarget(views[i])
            THEN /\ clicks'[c].phase = "focus"
                 /\ AtTarget(views[clicks'[c].calls[Len(clicks'[c].calls)].view])
            ELSE clicks'[c].phase = "openWindow"]_vars

\* the positions, among the calls made for click c, of the calls of ops
CallsOf(c, ops) == {i \in 1..Len(clicks[c].calls) : clicks[c].calls[i].op \in ops}

\* C10: on every click, whatever its action, the notification is closed
\* exactly once, before any enumeration, focus or openWindow call of that
\* click, also when no navigation follows.
C10_CloseFirst ==
    \A c \in 1..Len(clicks) :
        /\ Cardinality(CallsOf(c, {"close"})) = 1
        /\ clicks[c].notification \in closed
        /\ \A i \in CallsOf(c, {"close"}) :
             \A j \in CallsOf(c, {"matchAll", "focus", "openWindow"}) : i < j

\* a click on "close" with no navigation, and a click on the notification
\* body that closed the notification, enumerated the views and focused one
C10_Witness ==
    /\ Len(clicks) >= 2
    /\ clicks[1].action = "close"
    /\ clicks[1].calls = << [op |-> "close", view |-> 0] >>
    /\ clicks[2].action = ""
    /\ clicks[2].calls = << [op |-> "close", view |-> 0], [op |-> "matchAll", view |-> 0],
                            [op |-> "focus", view |-> 1] >>
    /\ {clicks[1].notification, clicks[2].notification} \subseteq closed

\* the click delivered in this step, 0 when the step delivers none
NewClick == IF Len(clicks') = Len(clicks) + 1 THEN Len(clicks') ELSE 0

\* C11: a click whose action is "close" (any action other than "view" or the
\* empty one) makes no enumeration, focus or openWindow call, neither when it
\* is delivered nor later, registers nothing with waitUntil and leaves the
\* open views alone: closing the notification is its only effect.
C11_CloseOnlyCloses ==
    [][/\ \A c \in 1..Len(clicks') :
            ~(clicks'[c].action \in {"view", ""}) =>
                /\ clicks'[c].calls = << [op |-> "close", view |-> 0] >>
                /\ clicks'[c].phase = "none"
                /\ ~clicks'[c].waitUntil
       /\ (NewClick # 0 /\ ~(clicks'[NewClick].action \in {"view", ""})) =>
            /\ views' = views /\ focused' = focused
            /\ closed' = closed \cup {clicks'[NewClick].notification}
            /\ UNCHANGED <<pushVars, dismissals, lifecycleVars>>]_vars

\* a "close" click with a view open, after which nothing was focused
C11_Witness ==
    /\ Len(clicks) >= 1 /\ clicks[1].action = "close"
    /\ Len(views) = 1 /\ focused = 0
    /\ clicks[1].notification \in closed

\* C12: a notificationclose event (the user swipes the notification away)
\* causes no focus call, no openWindow call, no new showNotification call and
\* no retry: the views, the clicks' calls and the render calls are unchanged.
C12_DismissalOnlyLogs ==
    [][dismissals' # dismissals =>
         /\ views' = views /\ focused' = focused
         /\ clicks' = clicks
         /\ shown' = shown /\ pushes' = pushes
         /\ UNCHANGED lifecycleVars]_vars

\* a notification was swiped away while a view was open
C12_Witness ==
    /\ Len(dismissals) = 1
    /\ dismissals[1] \in closed
    /\ Len(views) = 1 /\ focused = 0
    /\ \A c \in 1..Len(clicks) : clicks[c].notification # dismissals[1]

\* -------------------------------------------------------------------------
\* Properties of the lifecycle (checked under Spec)
\* -------------------------------------------------------------------------
\* C13: the activate listener issues clients.claim() and passes its promise
\* to waitUntil, so the worker is never activated while the claim is pending:
\* the claim has settled before the activating -> activated transition.
C13_ClaimSettlesBeforeActive ==
    /\ swState \in {"activating", "activated"} =>
         /\ claim.status # "none"
         /\ claim.waitUntil
    /\ swState = "activated" => claim.status \in {"fulfilled", "rejected"}

\* the worker is active, the claim succeeded and the open view is controlled
C13_Witness ==
    /\ swState = "activated"
    /\ claim.status = "fulfilled"
    /\ Len(views) = 1 /\ views[1].controlled

\* C14: the install listener calls skipWaiting() exactly once and registers
\* nothing with waitUntil, so the install event can end at once: it waits
\* neither for the skipWaiting() promise nor for open clients to close.
C14_InstallDoesNotBlock ==
    /\ swState # "parsed" => skipWaiting = 1 /\ installWait = 0
    /\ swState = "installing" => ENABLED InstallDone
    /\ swState = "installed" => ENABLED Activate

\* installed while the skipWaiting() promise is pending and a client is open
C14_Witness ==
    /\ swState = "installed"
    /\ skipPromise = "pending"
    /\ skipWaiting = 1
    /\ Len(views) = 1

\* -------------------------------------------------------------------------
\* Properties of the asynchronous steps (checked under Spec)
\* -------------------------------------------------------------------------
\* the asynchronous steps in flight: render calls and navigations
PendingSteps ==
    {<<"render", n>> : n \in {m \in 1..Len(shown) : shown[m].status = "pending"}}
    \cup {<<"click", c>> : c \in {d \in 1..Len(clicks) :
                                    clicks[d].phase \in {"matchAll", "focus", "openWindow"}}}

\* the pending promises that were passed to waitUntil: while there is one the
\* platform may not terminate the worker
KeepAlive ==
    {<<"render", n>> : n \in {m \in 1..Len(shown) :
                                shown[m].status = "pending" /\ shown[m].waitUntil}}
    \cup {<<"click", c>> : c \in {d \in 1..Len(clicks) :
                                    /\ clicks[d].phase \in {"matchAll", "focus", "openWindow"}
                                    /\ clicks[d].waitUntil}}

\* C15: every asynchronous step is inside a keep-alive scope: a render call
\* from its issue until it settles, and a navigation from the enumeration
\* until the focus or openWindow call settles, keep the worker alive; the
\* render call is issued in the step that delivers the push event, with no
\* suspension before it.
C15_AsyncStepsKeepAlive ==
    /\ PendingSteps \subseteq KeepAlive
    /\ PendingSteps # {} => KeepAlive # {}
    /\ Len(shown) = Len(pushes)

\* a render call and a focus call in flight at the same time
C15_Witness ==
    /\ Len(shown) >= 2 /\ shown[2].status = "pending"
    /\ Len(clicks) >= 1 /\ clicks[1].phase = "focus"
    /\ {<<"render", 2>>, <<"click", 1>>} \subseteq KeepAlive

\* the render call n is rejected in this step
Rejects(n) == shown[n].status = "pending" /\ shown'[n].status = "rejected"

\* C16: when the render call of a push event fails, no second render call
\* and no other platform call is made for the event, and the worker goes on:
\* a later push event can still be delivered and gets its own render call.
C16_RenderFailureIsDropped ==
    /\ [][(\E n \in 1..Len(shown) : Rejects(n)) =>
            /\ Len(shown') = Len(shown)
            /\ \A m \in 1..Len(shown) : Rejects(m) \/ shown'[m] = shown[m]
            /\ UNCHANGED <<pushes, clicks, views, focused, closed, swState>>]_vars
    /\ []((\E n \in 1..Len(shown) : shown[n].status = "rejected") =>
            /\ \A e \in 1..Len(pushes) : Cardinality(RenderedFor(e)) = 1
            /\ Len(pushes) < MaxPush => ENABLED PushCore)

\* the first render failed and the next push event was rendered all the same
C16_Witness ==
    /\ Len(shown) = 2 /\ Len(pushes) = 2
    /\ shown[1].status = "rejected" /\ shown[1].event = 1
    /\ shown[2].status = "fulfilled" /\ shown[2].event = 2

\* C17: when the focus or openWindow call of a click fails, the notification
\* has already been closed, the call is not repeated and nothing is tried in
\* its place: the failed call is the only navigation call of the click.
C17_NavigationFailureIsFinal ==
    \A c \in 1..Len(clicks) :
        clicks[c].phase = "rejected" =>
            /\ clicks[c].notification \in closed
            /\ CallsOf(c, {"close"}) = {1}
            /\ CallsOf(c, {"matchAll"}) = {2}
            /\ CallsOf(c, {"focus", "openWindow"}) = {3}
            /\ Len(clicks[c].calls) = 3

\* one click whose focus call failed and one whose openWindow call failed
C17_Witness ==
    /\ Len(clicks) = 2
    /\ clicks[1].phase = "rejected" /\ clicks[1].calls[3].op = "openWindow"
    /\ clicks[2].phase = "rejected" /\ clicks[2].calls[3].op = "focus"
    /\ {clicks[1].notification, clicks[2].notification} \subseteq closed

\* -------------------------------------------------------------------------
\* Independence of events (checked under SpecMix)
\* -------------------------------------------------------------------------
\* what the user sees of a showNotification call
Presentation(call) ==
    [title |-> call.title, body |-> call.options.body,
     requireInteraction |-> call.options.requireInteraction,
     vibrate |-> call.options.vibrate, actions |-> call.options.actions]

\* C18: nothing is retained between events: whatever was delivered before
\* a push event and whatever is still in flight (earlier renders pending,
\* clicks, dismissals), its title, body, requireInteraction, pattern and
\* actions are those the listener produces for that event handled alone.
C18_EventsAreIndependent ==
    \A e \in 1..Len(pushes) :
        /\ RenderedFor(e) # {}
        /\ \A n \in RenderedFor(e) :
             LET alone == PushListener(pushes[e].data, pushes[e].now)
             IN  /\ Len(alone.calls) = 1
                 /\ Presentation(shown[n]) = Presentation(alone.calls[1])

\* a push without data arrives while the render of a danger event is still
\* pending: the second notification is the default one and is not sticky
C18_Witness ==
    /\ Len(pushes) = 2 /\ Len(shown) = 2
    /\ pushes[1].data = JsonObject(Str(<<"danger">>), Undefined, Num(9250))
    /\ pushes[2].data = NoData
    /\ shown[1].status = "pending"
    /\ shown[1].options.requireInteraction
    /\ ~shown[2].options.requireInteraction
    /\ shown[2].title = TitleDefault

\* -------------------------------------------------------------------------
\* At most one navigation call per click (checked under Spec)
\* -------------------------------------------------------------------------
\* the open views the loop of the callback would return on
Focusable == {i \in 1..Len(views) : Includes(views[i].url, "/") /\ views[i].focus}

\* the navigation call click c has made once the step is over, if any
NavigationCall(c) == clicks'[c].calls[Len(clicks'[c].calls)]

\* C19: a click makes at most one navigation call, after its close and its
\* enumeration. When the enumeration resolves: if some open view is eligible
\* the one call is focus() on the first eligible view in enumeration order;
\* otherwise, if the platform offers openWindow, the one call is
\* openWindow("/"); otherwise there is no call. Never both, and nothing is
\* added to the calls of a click afterwards.
C19_AtMostOneNavigation ==
    /\ [](\A c \in 1..Len(clicks) :
            /\ Cardinality(CallsOf(c, {"focus", "openWindow"})) <= 1
            /\ Len(clicks[c].calls) <= 3)
    /\ [][\A c \in 1..Len(clicks) :
            /\ Resolves(c) =>
                 IF Focusable # {}
                 THEN /\ Len(clicks'[c].calls) = 3
                      /\ NavigationCall(c).op = "focus"
                      /\ NavigationCall(c).view \in Focusable
                      /\ \A i \in Focusable : NavigationCall(c).view <= i
                 ELSE IF hasOpenWindow
                 THEN /\ Len(clicks'[c].calls) = 3
                      /\ NavigationCall(c).op = "openWindow"
                 ELSE clicks'[c].calls = clicks[c].calls
            /\ clicks[c].phase \notin {"none", "matchAll"} =>
                 clicks'[c].calls = clicks[c].calls]_vars

\* with a blank view and a dashboard view open, in this order, a click has
\* focused the second view, the first eligible one, and has opened nothing;
\* an earlier click, made when only the blank view was open, opened a view
C19_Witness ==
    /\ Len(views) = 2 /\ views[1].url = BlankUrl /\ views[2].url = DashboardUrl
    /\ Len(clicks) = 2
    /\ CallsOf(1, {"openWindow"}) = {3} /\ CallsOf(1, {"focus"}) = {}
    /\ CallsOf(2, {"focus"}) = {3} /\ CallsOf(2, {"openWindow"}) = {}
    /\ clicks[2].calls[3].view = 2
    /\ clicks[2].phase = "fulfilled"

\* -------------------------------------------------------------------------
\* No rollback of a partly parsed payload (checked under SpecPush)
\* -------------------------------------------------------------------------
\* an object payload whose risk score is present (truthy) but not a number:
\* the risk line throws after the level branch has run
ThrowsAfterLevelBranch(data) ==
    /\ data.kind = "object"
    /\ data.risk_score.t = "string" /\ data.risk_score.s # << >>

\* C20: a payload whose parse block throws after the level branch (its
\* risk score is present but is not a number) is rendered exactly once and
\* keeps what the level branch assigned: the title of its level, the
\* message or the default body of its level with no risk line, the pattern
\* of its level, and requireInteraction true exactly for level "danger";
\* its attached payload stays the default {url: "/"}.
C20_NoRollbackAfterLevelBranch ==
    \A e \in 1..Len(pushes) :
        ThrowsAfterLevelBranch(pushes[e].data) =>
            /\ Cardinality(RenderedFor(e)) = 1
            /\ \A n \in RenderedFor(e) :
                 LET data == pushes[e].data
                     row  == SeverityTable(SeverityOf(data.level))
                 IN  /\ shown[n].title = row.title
                     /\ shown[n].options.body =
                           IF data.message.t = "string" /\ data.message.s # << >>
                           THEN data.message.s ELSE row.body
                     /\ shown[n].options.vibrate = row.vibrate
                     /\ shown[n].options.requireInteraction
                           = (data.level = Str(<<"danger">>))
                     /\ shown[n].options.data = DefaultData

\* two such payloads were rendered: a danger one without message, sticky
\* and titled for danger, and a caution one that keeps its message; neither
\* carries level, risk score or timestamp
C20_Witness ==
    /\ Len(pushes) = 2 /\ Len(shown) = 2
    /\ pushes[1].data = JsonObject(Str(<<"danger">>), Undefined, Str(<<"high">>))
    /\ pushes[2].data = JsonObject(Str(<<"caution">>),
                                   Str(<<"Grate 3 is overflowing">>), Str(<<"high">>))
    /\ shown[1].title = TitleDanger /\ shown[1].options.body = BodyDanger
    /\ shown[1].options.requireInteraction
    /\ shown[1].options.vibrate = VibrateDanger
    /\ shown[2].title = TitleCaution
    /\ shown[2].options.body = <<"Grate 3 is overflowing">>
    /\ ~shown[2].options.requireInteraction
    /\ shown[1].options.data.has = {"url"} /\ shown[2].options.data.has = {"url"}

====
